---- MODULE Spec2Model ----
(***************************************************************************)
(* Model of the lap/label state engine of the stopwatch application:       *)
(* LabelManager (label groups), TimerScreen (session: time, laps, toggle   *)
(* map), LabelsScreen (label and group editing), LabelSpinner (label       *)
(* selection) and StateManager (autosave file and named save states).      *)
(*                                                                         *)
(* Python lists are sequences; list position p is sequence index p + 1.    *)
(* A Python dict with string keys is a function whose domain is the set    *)
(* of keys; the ordered dict `groups` is a sequence of (name, labels)      *)
(* pairs in insertion order.  A missing dict key is a distinguished value. *)
(***************************************************************************)
EXTENDS Integers, Sequences, FiniteSets, TLC

\* ---------------------------------------------------------------- bounds
MaxLaps == 2
MaxAddLaps == 3
MaxLabels == 2
MaxGroups == 2
MaxLabelOps == 3
MaxSaves == 3
MaxSnapshots == 2
MaxSavedLaps == 1
MaxLen == 3
MaxExportLaps == 2
MaxSessionSaves == 1

\* ------------------------------------------------------ values and inputs
None == "<None>"
NoGroup == "<no group key>"
NoDesc == "<no desc key>"
NoNote == "<no note key>"
NoFile == [absent |-> "file"]
NoLabel == [absent |-> "label"]

LabelNames == {"Run", "Walk"}
NewGroupNames == {"G1", "G2"}
NoteTexts == {"n"}
SaveNames == {"Run", "Run(1)"}
Nows == {"2026-01-01T00:00:00"}
TickDeltas == {1}
Times == {0, 1}

\* ------------------------------------------------------------ dict helpers
EmptyDict == [k \in {} |-> FALSE]

\* d.get(k, False)
DictGet(d, k) == IF k \in DOMAIN d THEN d[k] ELSE FALSE

\* d[k] = v
DictPut(d, k, v) == [x \in (DOMAIN d) \cup {k} |-> IF x = k THEN v ELSE d[x]]

\* del list[index] for a 0-based index
ListDel(s, index) == [j \in 1..(Len(s) - 1) |-> IF j <= index THEN s[j] ELSE s[j + 1]]

\* list[index] = v for a 0-based index
ListSet(s, index, v) == [s EXCEPT ![index + 1] = v]

\* ----------------------------------------------------------- LabelManager
\* the label every new group is created with
DefaultLabel ==
    [name |-> "Default", color |-> "dark", desc |-> NoDesc,
     is_default |-> TRUE, auto_startstop |-> FALSE]

GroupKeys(gs) == {gs[j].name : j \in 1..Len(gs)}

\* position of the key in the ordered dict (1-based), 0 when absent
KeyPos(gs, g) ==
    IF g \in GroupKeys(gs)
    THEN CHOOSE j \in 1..Len(gs) : gs[j].name = g
    ELSE 0

\* groups[g]
GroupLabels(gs, g) == gs[KeyPos(gs, g)].labels

\* groups[g] = labels (an existing key keeps its position, a new key is appended)
GroupsPut(gs, g, labels) ==
    IF g \in GroupKeys(gs)
    THEN [gs EXCEPT ![KeyPos(gs, g)].labels = labels]
    ELSE Append(gs, [name |-> g, labels |-> labels])

\* del groups[g]
GroupsDel(gs, g) == ListDel(gs, KeyPos(gs, g) - 1)

\* faulty variant: an existing group is replaced by a new one
add_group_Overwrites(lm, group_name) ==
    IF group_name /= ""
    THEN [lm |-> [lm EXCEPT !.groups = GroupsPut(lm.groups, group_name, <<DefaultLabel>>)],
          ok |-> TRUE]
    ELSE [lm |-> lm, ok |-> FALSE]

\* LabelManager.add_group: the store after the call and the returned bool
add_group(lm, group_name) ==
    IF group_name /= "" /\ group_name \notin GroupKeys(lm.groups)
    THEN [lm |-> [lm EXCEPT !.groups = GroupsPut(lm.groups, group_name, <<DefaultLabel>>)],
          ok |-> TRUE]
    ELSE [lm |-> lm, ok |-> FALSE]

\* faulty variant: the group Default is renamed like any other
rename_group_AnyOld(lm, old_name, new_name) ==
    IF new_name = "" \/ new_name \in GroupKeys(lm.groups) \/ old_name \notin GroupKeys(lm.groups)
    THEN [lm |-> lm, ok |-> FALSE]
    ELSE [lm |-> [groups |-> GroupsDel(GroupsPut(lm.groups, new_name,
                                                 GroupLabels(lm.groups, old_name)), old_name),
                  group |-> IF lm.group = old_name THEN new_name ELSE lm.group,
                  idx |-> lm.idx],
          ok |-> TRUE]

\* faulty variant: the active group is left as it is
rename_group_KeepsActive(lm, old_name, new_name) ==
    IF new_name = "" \/ new_name \in GroupKeys(lm.groups) \/ old_name \notin GroupKeys(lm.groups)
    THEN [lm |-> lm, ok |-> FALSE]
    ELSE IF old_name = "Default"
    THEN [lm |-> lm, ok |-> FALSE]
    ELSE [lm |-> [lm EXCEPT !.groups = GroupsDel(GroupsPut(lm.groups, new_name,
                                                 GroupLabels(lm.groups, old_name)), old_name)],
          ok |-> TRUE]

\* LabelManager.rename_group
rename_group(lm, old_name, new_name) ==
    IF new_name = "" \/ new_name \in GroupKeys(lm.groups) \/ old_name \notin GroupKeys(lm.groups)
    THEN [lm |-> lm, ok |-> FALSE]
    ELSE IF old_name = "Default"
    THEN [lm |-> lm, ok |-> FALSE]
    ELSE [lm |-> [groups |-> GroupsDel(GroupsPut(lm.groups, new_name,
                                                 GroupLabels(lm.groups, old_name)), old_name),
                  group |-> IF lm.group = old_name THEN new_name ELSE lm.group,
                  idx |-> lm.idx],
          ok |-> TRUE]

\* faulty variant: the active group is reset whichever group is deleted
delete_group_ResetsAlways(lm, group_name) ==
    IF group_name = "Default" \/ group_name \notin GroupKeys(lm.groups)
    THEN [lm |-> lm, ok |-> FALSE]
    ELSE [lm |-> [groups |-> GroupsDel(lm.groups, group_name),
                  group |-> "Default", idx |-> 0],
          ok |-> TRUE]

\* LabelManager.delete_group
delete_group(lm, group_name) ==
    IF group_name = "Default" \/ group_name \notin GroupKeys(lm.groups)
    THEN [lm |-> lm, ok |-> FALSE]
    ELSE [lm |-> [groups |-> GroupsDel(lm.groups, group_name),
                  group |-> IF lm.group = group_name THEN "Default" ELSE lm.group,
                  idx |-> IF lm.group = group_name THEN 0 ELSE lm.idx],
          ok |-> TRUE]

\* LabelManager._load_from_storage: a missing file gives a fresh Default group
LoadLabels(file) ==
    IF file = NoFile
    THEN add_group([groups |-> <<>>, group |-> "Default", idx |-> 0], "Default").lm
    ELSE IF file.groups = <<>>
    THEN add_group([file EXCEPT !.groups = <<>>], "Default").lm
    ELSE file

\* ------------------------------------------------------------ TimerScreen
\* label.copy() with label_copy['group'] = g
WithGroup(label, g) ==
    [name |-> label.name, color |-> label.color, desc |-> label.desc,
     is_default |-> label.is_default, auto_startstop |-> label.auto_startstop,
     group |-> g]

\* label.copy() of a store label: the copy has no 'group' key
PlainCopy(label) == WithGroup(label, NoGroup)

\* TimerScreen._find_label_group: first group, in dict order, holding a label
\* with the same name, color and is_default; "Default" when there is none
LabelMatches(labels, label) ==
    \E j \in 1..Len(labels) :
        /\ labels[j].name = label.name
        /\ labels[j].color = label.color
        /\ labels[j].is_default = label.is_default

_find_label_group(gs, label) ==
    IF \E j \in 1..Len(gs) : LabelMatches(gs[j].labels, label)
    THEN gs[CHOOSE j \in 1..Len(gs) :
                /\ LabelMatches(gs[j].labels, label)
                /\ \A h \in 1..(j - 1) : ~LabelMatches(gs[h].labels, label)].name
    ELSE "Default"

\* faulty variant: one toggle entry for each group and name
ToggleKey_PerGroup(lbl) == lbl.group \o "/" \o lbl.name

\* the toggle rule of _add_lap and _on_lap_label_changed: the key is the name
ToggleKey(lbl) == lbl.name

IsStart(states, lbl) == ~DictGet(states, ToggleKey(lbl))

TypeOf(is_start) == IF is_start THEN "Start" ELSE "Stop"

\* TimerScreen._recalculate_startstop_states: laps are visited from the last
\* list position (oldest) down to position 0 with a fresh temp_states
\* faulty variant: the type of a lap with a non-auto label is left as it is
RecalcLap_KeepsType(lap, temp_states) ==
    IF lap.lbl.auto_startstop
    THEN [lap |-> [lap EXCEPT !.type = TypeOf(IsStart(temp_states, lap.lbl))],
          states |-> DictPut(temp_states, ToggleKey(lap.lbl), IsStart(temp_states, lap.lbl))]
    ELSE [lap |-> lap, states |-> temp_states]

\* the loop body: the lap and temp_states after one lap was visited
RecalcLap(lap, temp_states) ==
    IF lap.lbl.auto_startstop
    THEN [lap |-> [lap EXCEPT !.type = TypeOf(IsStart(temp_states, lap.lbl))],
          states |-> DictPut(temp_states, ToggleKey(lap.lbl), IsStart(temp_states, lap.lbl))]
    ELSE [lap |-> [lap EXCEPT !.type = None], states |-> temp_states]

RECURSIVE RecalcFrom(_, _, _)
RecalcFrom(ls, i, temp_states) ==
    IF i = 0
    THEN [laps |-> ls, states |-> temp_states]
    ELSE RecalcFrom([ls EXCEPT ![i] = RecalcLap(ls[i], temp_states).lap], i - 1,
                    RecalcLap(ls[i], temp_states).states)

\* faulty variant: the walk starts from the current toggle map
_recalculate_from_current(ls, states) == RecalcFrom(ls, Len(ls), states)

\* (states is self.label_startstop_state, which the method does not read: the
\* walk starts from an empty temp_states)
_recalculate_startstop_states(ls, states) == RecalcFrom(ls, Len(ls), EmptyDict)

\* index (1-based) of the first label of the list with the name, 0 if none
FirstNamed(labels, label_name) ==
    IF \E j \in 1..Len(labels) : labels[j].name = label_name
    THEN CHOOSE j \in 1..Len(labels) :
            /\ labels[j].name = label_name
            /\ \A h \in 1..(j - 1) : labels[h].name /= label_name
    ELSE 0

\* the loop of TimerScreen.refresh_laps_for_label: every lap with the name gets
\* a copy of the first label of the active group with that name
RelabelLaps(ls, labels, label_name) ==
    [i \in 1..Len(ls) |->
        IF ls[i].lbl.name = label_name /\ FirstNamed(labels, label_name) /= 0
        THEN [ls[i] EXCEPT !.lbl = PlainCopy(labels[FirstNamed(labels, label_name)])]
        ELSE ls[i]]

refresh_laps_for_label(ls, states, labels, label_name) ==
    _recalculate_startstop_states(RelabelLaps(ls, labels, label_name), states)

\* TimerScreen._sync_labels_with_manager for one lap: the label of the lap's
\* own group first, then the first group in dict order that has the name
SyncGroup(gs, lbl) ==
    LET g == IF lbl.group = NoGroup THEN "Default" ELSE lbl.group
    IN IF g \in GroupKeys(gs) /\ FirstNamed(GroupLabels(gs, g), lbl.name) /= 0
       THEN g
       ELSE IF \E j \in 1..Len(gs) : FirstNamed(gs[j].labels, lbl.name) /= 0
       THEN gs[CHOOSE j \in 1..Len(gs) :
                  /\ FirstNamed(gs[j].labels, lbl.name) /= 0
                  /\ \A h \in 1..(j - 1) : FirstNamed(gs[h].labels, lbl.name) = 0].name
       ELSE None

_sync_labels_with_manager(ls, gs) ==
    [i \in 1..Len(ls) |->
        LET g == SyncGroup(gs, ls[i].lbl)
        IN IF g = None
           THEN ls[i]
           ELSE [ls[i] EXCEPT !.lbl =
                    WithGroup(GroupLabels(gs, g)[FirstNamed(GroupLabels(gs, g), ls[i].lbl.name)], g)]]

\* TimerScreen._refresh_all_lap_rows and _update_lap_numbers: the number shown
\* in the row at list position i is len(laps) - i
LapNumber(total_laps, i) == total_laps - i

RowNumbers(ls) == [j \in 1..Len(ls) |-> LapNumber(Len(ls), j - 1)]

\* ----------------------------------------------------------- StateManager
\* JSON values as json.dump writes them and json.load reads them: a value
\* carries its JSON type; a dict key that is not there has no value
JsonString(s) == [str |-> s]
JsonNumber(n) == [num |-> n]
JsonBool(b) == [bool |-> b]
JsonArray(a) == [array |-> a]
JsonNull == [null |-> TRUE]
JsonAbsent == [absent |-> "key"]

\* a dict entry that may be missing: the key is written only when it is there
DumpOptional(v, missing) == IF v = missing THEN JsonAbsent ELSE JsonString(v)

\* dict.get(key) on the loaded dict
LoadOptional(j, missing) == IF j = JsonAbsent THEN missing ELSE j.str

\* a label dict (the colour is a list of numbers)
DumpLabel(lbl) ==
    [name |-> JsonString(lbl.name), color |-> JsonArray(lbl.color),
     desc |-> DumpOptional(lbl.desc, NoDesc), is_default |-> JsonBool(lbl.is_default),
     auto_startstop |-> JsonBool(lbl.auto_startstop),
     group |-> DumpOptional(lbl.group, NoGroup)]

LoadLabel(j) ==
    [name |-> j.name.str, color |-> j.color.array, desc |-> LoadOptional(j.desc, NoDesc),
     is_default |-> j.is_default.bool, auto_startstop |-> j.auto_startstop.bool,
     group |-> LoadOptional(j.group, NoGroup)]

\* faulty variant: the note of a lap is not written
DumpLap_NoNote(lap) ==
    [t |-> JsonNumber(lap.t), lbl |-> DumpLabel(lap.lbl),
     type |-> IF lap.type = None THEN JsonNull ELSE JsonString(lap.type),
     note |-> JsonAbsent]

\* a lap dict: None is written as null
DumpLap(lap) ==
    [t |-> JsonNumber(lap.t), lbl |-> DumpLabel(lap.lbl),
     type |-> IF lap.type = None THEN JsonNull ELSE JsonString(lap.type),
     note |-> DumpOptional(lap.note, NoNote)]

LoadLap(j) ==
    [t |-> j.t.num, lbl |-> LoadLabel(j.lbl),
     type |-> IF j.type = JsonNull THEN None ELSE j.type.str,
     note |-> LoadOptional(j.note, NoNote)]

\* the document written by save_current_state
CurrentDoc(t, ls, states) ==
    [time |-> JsonNumber(t),
     laps |-> [i \in 1..Len(ls) |-> DumpLap(ls[i])],
     label_startstop_state |-> [k \in DOMAIN states |-> JsonBool(states[k])]]

\* the dict load_current_state and load_save_state return for a document
LoadDoc(doc) ==
    [time |-> doc.time.num,
     laps |-> [i \in 1..Len(doc.laps) |-> LoadLap(doc.laps[i])],
     label_startstop_state |->
        [k \in DOMAIN doc.label_startstop_state |-> doc.label_startstop_state[k].bool]]

\* the document written by create_save_state
SaveDoc(t, ls, states, now) ==
    [time |-> CurrentDoc(t, ls, states).time,
     laps |-> CurrentDoc(t, ls, states).laps,
     label_startstop_state |-> CurrentDoc(t, ls, states).label_startstop_state,
     saved_at |-> JsonString(now)]

\* f"{base_name}({counter})"
Numbered(base_name, counter) == base_name \o "(" \o ToString(counter) \o ")"

RECURSIVE ProbeName(_, _, _)
ProbeName(existing_states, base_name, counter) ==
    IF Numbered(base_name, counter) \in existing_states
    THEN ProbeName(existing_states, base_name, counter + 1)
    ELSE Numbered(base_name, counter)

\* faulty variant: the number is the count of save states, not the first free one
_get_unique_save_name_count(existing_states, base_name) ==
    IF base_name \notin existing_states
    THEN base_name
    ELSE Numbered(base_name, Cardinality(existing_states))

\* the number of membership tests of _get_unique_save_name from the test of
\* the name with the number counter onwards
RECURSIVE ProbeCount(_, _, _)
ProbeCount(existing_states, base_name, counter) ==
    IF Numbered(base_name, counter) \in existing_states
    THEN 1 + ProbeCount(existing_states, base_name, counter + 1)
    ELSE 1

\* the number of membership tests of one call of _get_unique_save_name
Probes(existing_states, base_name) ==
    IF base_name \notin existing_states
    THEN 1
    ELSE 1 + ProbeCount(existing_states, base_name, 1)

\* faulty variant: the number 1 is taken without a test
_get_unique_save_name_one(existing_states, base_name) ==
    IF base_name \notin existing_states
    THEN base_name
    ELSE Numbered(base_name, 1)

\* faulty variant: the name is used as given
_get_unique_save_name_given(existing_states, base_name) == base_name

\* StateManager._get_unique_save_name
_get_unique_save_name(existing_states, base_name) ==
    IF base_name \notin existing_states
    THEN base_name
    ELSE ProbeName(existing_states, base_name, 1)


\* ------------------------------------------------------------------ state
VARIABLES
    groups,                 \* LabelManager.groups (ordered dict)
    group,                  \* LabelManager.group, the active group
    idx,                    \* LabelManager.idx, 0-based
    time,                   \* TimerScreen.time
    running,                \* TimerScreen.running
    laps,                   \* TimerScreen.laps, newest first
    provisional_label,      \* TimerScreen.provisional_label or NoLabel
    label_startstop_state,  \* TimerScreen.label_startstop_state
    lap_numbers,            \* numbers shown by TimerScreen.lap_widgets
    label_file,             \* states/label_manager_data.json
    timer_file,             \* states/timer_state.json
    saves,                  \* saves/<name>.json, keyed by name
    label_ops,              \* number of label and group edits made on the labels screen
    last_op,                \* the handler that last wrote laps, groups or saves, else "other"
    after_reset,            \* no lap was added or loaded since the last reset
    csv_file                \* rows of the CSV file the last export wrote, <<>> if none

vars == <<groups, group, idx, time, running, laps, provisional_label,
          label_startstop_state, lap_numbers, label_file, timer_file, saves,
          label_ops, last_op, after_reset, csv_file>>

lmVars == <<groups, group, idx, label_file, label_ops>>
sessionVars == <<time, laps, label_startstop_state, lap_numbers, timer_file>>


\* the LabelManager object as one value
LM == [groups |-> groups, group |-> group, idx |-> idx]

\* LabelManager.all()
AllLabels == GroupLabels(groups, group)

\* LabelManager.current() is defined when idx is a valid list index
CurrentDefined == group \in GroupKeys(groups) /\ idx >= 0 /\ idx < Len(AllLabels)

\* TimerScreen._load_from_storage: the session after construction, given
\* the autosave document found on disk and the groups of the label manager
_load_from_storage(doc, gs) ==
    IF doc = NoFile
    THEN [time |-> 0, laps |-> <<>>, states |-> EmptyDict]
    ELSE [time |-> LoadDoc(doc).time,
          laps |-> _sync_labels_with_manager(LoadDoc(doc).laps, gs),
          states |-> LoadDoc(doc).label_startstop_state]

\* state after LabelManager() was constructed with the label document lf on disk
LabelsStartup(lf) ==
    /\ groups = LoadLabels(lf).groups
    /\ group = LoadLabels(lf).group
    /\ idx = LoadLabels(lf).idx
    /\ label_file = LoadLabels(lf)
    /\ label_ops = 0

\* state after LabelManager() and TimerScreen() were constructed with the
\* label document lf and the autosave document tf on disk
Startup(lf, tf) ==
    /\ LabelsStartup(lf)
    /\ time = _load_from_storage(tf, groups).time
    /\ laps = _load_from_storage(tf, groups).laps
    /\ label_startstop_state = _load_from_storage(tf, groups).states
    /\ lap_numbers = RowNumbers(laps)
    /\ timer_file = tf
    /\ running = FALSE
    /\ provisional_label = NoLabel
    /\ saves = EmptyDict
    /\ last_op = "init"
    /\ after_reset = FALSE
    /\ csv_file = <<>>

\* ------------------------------------------------- TimerScreen handlers
\* TimerScreen._toggle_timer
ToggleTimer ==
    /\ running' = ~running
    /\ last_op' = "other"
    /\ UNCHANGED <<lmVars, sessionVars, provisional_label, saves, csv_file, after_reset>>

\* faulty variant: the tick is delivered whether the timer runs or not
Tick_WhileStopped(dt) ==
    /\ time + dt \in Times
    /\ time' = time + dt
    /\ last_op' = "other"
    /\ UNCHANGED <<lmVars, running, laps, label_startstop_state, lap_numbers,
                   timer_file, provisional_label, saves, csv_file, after_reset>>

\* TimerScreen._tick, scheduled only while running
Tick(dt) ==
    /\ running
    /\ time + dt \in Times
    /\ time' = time + dt
    /\ last_op' = "other"
    /\ UNCHANGED <<lmVars, running, laps, label_startstop_state, lap_numbers,
                   timer_file, provisional_label, saves, csv_file, after_reset>>

\* the label _add_lap records: the provisional one with the group found for
\* it, else the current label with the active group
LapLabel ==
    IF provisional_label /= NoLabel
    THEN WithGroup(provisional_label, _find_label_group(groups, provisional_label))
    ELSE WithGroup(AllLabels[idx + 1], group)

\* the type _add_lap gives to a lap with the label
LapType(states, lbl) ==
    IF lbl.auto_startstop THEN TypeOf(IsStart(states, lbl)) ELSE None

\* faulty variant: the entry is set and never flipped back
LapStates_NoFlip(states, lbl) ==
    IF lbl.auto_startstop
    THEN DictPut(states, ToggleKey(lbl), TRUE)
    ELSE states

\* the toggle map after _add_lap recorded a lap with the label
LapStates(states, lbl) ==
    IF lbl.auto_startstop
    THEN DictPut(states, ToggleKey(lbl), IsStart(states, lbl))
    ELSE states

\* faulty variant: self.laps.append(lap_data)
InsertLap_Append(ls, lap_data) == ls \o <<lap_data>>

\* self.laps.insert(0, lap_data)
InsertLap(ls, lap_data) == <<lap_data>> \o ls

\* TimerScreen._update_lap_numbers over the rows of lap_widgets
_update_lap_numbers(widgets, total_laps) ==
    [j \in 1..Len(widgets) |-> LapNumber(total_laps, j - 1)]

\* TimerScreen._lap_or_reset while running: TimerScreen._add_lap, for a lap
\* list of fewer than max_laps laps
AddLapUpTo(max_laps) ==
    /\ running
    /\ Len(laps) < max_laps
    /\ provisional_label = NoLabel => CurrentDefined
    /\ LET lbl == LapLabel
           lap_data == [t |-> time, lbl |-> lbl,
                        type |-> LapType(label_startstop_state, lbl), note |-> NoNote]
       IN /\ laps' = InsertLap(laps, lap_data)
          /\ label_startstop_state' = LapStates(label_startstop_state, lbl)
          /\ lap_numbers' = _update_lap_numbers(<<Len(laps')>> \o lap_numbers, Len(laps'))
          /\ timer_file' = CurrentDoc(time, laps', label_startstop_state')
    /\ provisional_label' = NoLabel
    /\ after_reset' = FALSE
    /\ last_op' = "add_lap"
    /\ UNCHANGED <<lmVars, time, running, saves, csv_file>>

AddLap == AddLapUpTo(MaxLaps)

\* faulty variant: the toggle map survives the reset
Reset_KeepsToggle ==
    /\ ~running
    /\ time' = 0
    /\ laps' = <<>>
    /\ lap_numbers' = <<>>
    /\ timer_file' = CurrentDoc(0, <<>>, label_startstop_state)
    /\ after_reset' = TRUE
    /\ last_op' = "reset"
    /\ UNCHANGED <<lmVars, running, provisional_label, saves, csv_file, label_startstop_state>>

\* faulty variant: the time is set to 0 and the laps stay
Reset_KeepsLaps ==
    /\ ~running
    /\ time' = 0
    /\ timer_file' = CurrentDoc(0, laps, label_startstop_state)
    /\ after_reset' = TRUE
    /\ last_op' = "reset"
    /\ UNCHANGED <<lmVars, running, laps, lap_numbers, label_startstop_state,
                   provisional_label, saves, csv_file>>

\* TimerScreen._lap_or_reset while stopped: TimerScreen._reset
Reset ==
    /\ ~running
    /\ time' = 0
    /\ laps' = <<>>
    /\ lap_numbers' = <<>>
    /\ label_startstop_state' = EmptyDict
    /\ timer_file' = CurrentDoc(0, <<>>, EmptyDict)
    /\ after_reset' = TRUE
    /\ last_op' = "reset"
    /\ UNCHANGED <<lmVars, running, provisional_label, saves, csv_file>>

\* TimerScreen._on_provisional_label_change for the label at list position j - 1
SelectProvisional(j) ==
    /\ group \in GroupKeys(groups)
    /\ j \in 1..Len(AllLabels)
    /\ provisional_label' = WithGroup(AllLabels[j], group)
    /\ idx' = FirstNamed(AllLabels, AllLabels[j].name) - 1
    /\ last_op' = "other"
    /\ UNCHANGED <<groups, group, label_file, label_ops, sessionVars, running, saves, csv_file,
                   after_reset>>

\* TimerScreen._on_lap_label_changed up to the recalculation: the type and
\* toggle map after the lap at index i got its new label
LabelChanged(ls, states, i) ==
    IF ~ls[i].lbl.auto_startstop
    THEN [laps |-> [ls EXCEPT ![i].type = None], states |-> states]
    ELSE IF ls[i].type = None
    THEN [laps |-> [ls EXCEPT ![i].type = TypeOf(IsStart(states, ls[i].lbl))],
          states |-> DictPut(states, ToggleKey(ls[i].lbl), IsStart(states, ls[i].lbl))]
    ELSE [laps |-> ls, states |-> states]

\* faulty variant: no recalculation of the other laps
_on_lap_label_changed_only(ls, states, i) == LabelChanged(ls, states, i)

\* TimerScreen._on_lap_label_changed
_on_lap_label_changed(ls, states, i) ==
    _recalculate_startstop_states(LabelChanged(ls, states, i).laps,
                                  LabelChanged(ls, states, i).states)

\* LabelSpinner._select_label on the row of lap i with the label at position
\* j - 1 of the active group, and its on_change callback
ChangeLapLabel(i, j) ==
    /\ i \in 1..Len(laps)
    /\ group \in GroupKeys(groups)
    /\ j \in 1..Len(AllLabels)
    /\ LET selected == [laps EXCEPT ![i].lbl = PlainCopy(AllLabels[j])]
           result == _on_lap_label_changed(selected, label_startstop_state, i)
       IN /\ laps' = result.laps
          /\ label_startstop_state' = result.states
          /\ lap_numbers' = RowNumbers(laps')
          /\ timer_file' = CurrentDoc(time, laps', label_startstop_state')
    /\ last_op' = "change_lap_label"
    /\ UNCHANGED <<lmVars, time, running, provisional_label, saves, csv_file, after_reset>>

\* save_note of TimerScreen._open_note_popup
SetNote(i, text) ==
    /\ i \in 1..Len(laps)
    /\ laps' = [laps EXCEPT ![i].note = text]
    /\ timer_file' = CurrentDoc(time, laps', label_startstop_state)
    /\ last_op' = "other"
    /\ UNCHANGED <<lmVars, time, running, label_startstop_state, lap_numbers,
                   provisional_label, saves, csv_file, after_reset>>

\* TimerScreen._save_state / StateManager.create_save_state, for a saves
\* directory of fewer than max_saves files
SaveStateUpTo(max_saves, name, now) ==
    /\ Cardinality(DOMAIN saves) < max_saves
    /\ name /= ""
    /\ saves' = DictPut(saves, _get_unique_save_name(DOMAIN saves, name),
                        SaveDoc(time, laps, label_startstop_state, now))
    /\ last_op' = "save_state"
    /\ UNCHANGED <<lmVars, sessionVars, running, provisional_label, after_reset, csv_file>>

SaveState(name, now) == SaveStateUpTo(MaxSaves, name, now)

\* a file that was opened for writing and not written to the end: json.load
\* raises on it
PartialFile == [partial |-> TRUE]

\* faulty variant: the loaded session is not written to the autosave file
LoadState_NoAutosave(name) ==
    /\ name \in DOMAIN saves
    /\ saves[name] /= [partial |-> TRUE]
    /\ time' = LoadDoc(saves[name]).time
    /\ laps' = LoadDoc(saves[name]).laps
    /\ label_startstop_state' = LoadDoc(saves[name]).label_startstop_state
    /\ lap_numbers' = RowNumbers(laps')
    /\ after_reset' = FALSE
    /\ last_op' = "load_state"
    /\ UNCHANGED <<lmVars, running, provisional_label, saves, csv_file, timer_file>>

\* TimerScreen._load_state / StateManager.load_save_state (which returns
\* None for a file json.load cannot parse, and nothing is loaded then)
LoadState(name) ==
    /\ name \in DOMAIN saves
    /\ saves[name] /= PartialFile
    /\ time' = LoadDoc(saves[name]).time
    /\ laps' = LoadDoc(saves[name]).laps
    /\ label_startstop_state' = LoadDoc(saves[name]).label_startstop_state
    /\ lap_numbers' = RowNumbers(laps')
    /\ timer_file' = CurrentDoc(time', laps', label_startstop_state')
    /\ after_reset' = FALSE
    /\ last_op' = "load_state"
    /\ UNCHANGED <<lmVars, running, provisional_label, saves, csv_file>>

\* TimerScreen._delete_save_state / StateManager.delete_save_state
DeleteSaveState(name) ==
    /\ name \in DOMAIN saves
    /\ saves' = [n \in (DOMAIN saves) \ {name} |-> saves[n]]
    /\ last_op' = "delete_save_state"
    /\ UNCHANGED <<lmVars, sessionVars, running, provisional_label, after_reset, csv_file>>

\* what becomes of a write: the file is written, or open() raises, or
\* open() creates or empties the file and json.dump or the close raises
WriteOutcomes == {"written", "open fails", "write fails"}

\* the file after open(path, 'w') and json.dump(doc) with the outcome
Written(file, doc, outcome) ==
    IF outcome = "written" THEN doc
    ELSE IF outcome = "open fails" THEN file
    ELSE PartialFile

\* the value the save methods return
Returned(outcome) == IF outcome = "written" THEN " -> True" ELSE " -> False"

\* a call of StateManager.save_current_state through
\* TimerScreen._save_to_storage
CallSaveCurrent(outcome) ==
    /\ timer_file' = Written(timer_file, CurrentDoc(time, laps, label_startstop_state), outcome)
    /\ last_op' = "save_current_state" \o Returned(outcome)
    /\ UNCHANGED <<lmVars, time, laps, label_startstop_state, lap_numbers, running,
                   provisional_label, saves, csv_file, after_reset>>

\* a call of StateManager.create_save_state through TimerScreen._save_state,
\* for a saves directory of fewer than MaxSnapshots files
CallCreateSaveState(name, now, outcome) ==
    /\ Cardinality(DOMAIN saves) < MaxSnapshots
    /\ name /= ""
    /\ LET unique_name == _get_unique_save_name(DOMAIN saves, name)
       IN saves' = IF outcome = "open fails"
                   THEN saves
                   ELSE DictPut(saves, unique_name,
                                Written(NoFile, SaveDoc(time, laps, label_startstop_state, now),
                                        outcome))
    /\ last_op' = "create_save_state(" \o name \o ")" \o Returned(outcome)
    /\ UNCHANGED <<lmVars, sessionVars, running, provisional_label, after_reset, csv_file>>

\* StopwatchApp.on_stop, then a new process: LabelManager.__init__ and
\* TimerScreen.__init__ with _load_from_storage and _sync_labels_with_manager
Restart ==
    LET written == CurrentDoc(time, laps, label_startstop_state)
        lm == LoadLabels(label_file)
        loaded == _load_from_storage(written, lm.groups)
    IN /\ timer_file' = written
       /\ groups' = lm.groups
       /\ group' = lm.group
       /\ idx' = lm.idx
       /\ time' = loaded.time
       /\ laps' = loaded.laps
       /\ label_startstop_state' = loaded.states
       /\ lap_numbers' = RowNumbers(laps')
       /\ running' = FALSE
       /\ provisional_label' = NoLabel
       /\ last_op' = "restart"
       /\ UNCHANGED <<label_file, label_ops, saves, csv_file, after_reset>>

\* ------------------------------------------------- LabelsScreen handlers
\* LabelManager.save
SavedLabels(gs, g, i) == [groups |-> gs, group |-> g, idx |-> i]

\* add_label of LabelsScreen._open_add_label_popup
AddLabel(name, color, desc, auto) ==
    /\ label_ops < MaxLabelOps
    /\ label_ops' = label_ops + 1
    /\ group \in GroupKeys(groups)
    /\ Len(AllLabels) < MaxLabels
    /\ name /= ""
    /\ groups' = GroupsPut(groups, group,
                           Append(AllLabels, [name |-> name, color |-> color, desc |-> desc,
                                              is_default |-> FALSE, auto_startstop |-> auto]))
    /\ label_file' = SavedLabels(groups', group, idx)
    /\ last_op' = "add_label"
    /\ UNCHANGED <<group, idx, sessionVars, running, provisional_label, saves, csv_file, after_reset>>

\* faulty variant: the laps recorded with the deleted label fall back to the
\* Default label
DeleteLabel_Cascade(j) ==
    /\ label_ops < MaxLabelOps
    /\ label_ops' = label_ops + 1
    /\ group \in GroupKeys(groups)
    /\ j \in 1..Len(AllLabels)
    /\ ~AllLabels[j].is_default
    /\ groups' = GroupsPut(groups, group, ListDel(AllLabels, j - 1))
    /\ idx' = 0
    /\ label_file' = SavedLabels(groups', group, idx')
    /\ laps' = [i \in 1..Len(laps) |->
                  IF laps[i].lbl.name = AllLabels[j].name /\ laps[i].lbl.group = group
                  THEN [laps[i] EXCEPT !.lbl = WithGroup(DefaultLabel, group)]
                  ELSE laps[i]]
    /\ timer_file' = CurrentDoc(time, laps', label_startstop_state)
    /\ last_op' = "delete_label"
    /\ UNCHANGED <<group, time, label_startstop_state, lap_numbers, running,
                   provisional_label, saves, csv_file, after_reset>>

\* faulty variant: the active index is left as it is
DeleteLabel_KeepsIdx(j) ==
    /\ label_ops < MaxLabelOps
    /\ label_ops' = label_ops + 1
    /\ group \in GroupKeys(groups)
    /\ j \in 1..Len(AllLabels)
    /\ ~AllLabels[j].is_default
    /\ groups' = GroupsPut(groups, group, ListDel(AllLabels, j - 1))
    /\ label_file' = SavedLabels(groups', group, idx)
    /\ last_op' = "delete_label"
    /\ UNCHANGED <<group, idx, sessionVars, running, provisional_label, saves, csv_file, after_reset>>

\* faulty variant: the Default label is deleted like any other
DeleteLabel_Any(j) ==
    /\ label_ops < MaxLabelOps
    /\ label_ops' = label_ops + 1
    /\ group \in GroupKeys(groups)
    /\ j \in 1..Len(AllLabels)
    /\ groups' = GroupsPut(groups, group, ListDel(AllLabels, j - 1))
    /\ idx' = 0
    /\ label_file' = SavedLabels(groups', group, idx')
    /\ last_op' = "delete_label"
    /\ UNCHANGED <<group, sessionVars, running, provisional_label, saves, csv_file, after_reset>>

\* LabelsScreen._delete_label for the label at list position j - 1
DeleteLabel(j) ==
    /\ label_ops < MaxLabelOps
    /\ label_ops' = label_ops + 1
    /\ group \in GroupKeys(groups)
    /\ j \in 1..Len(AllLabels)
    /\ ~AllLabels[j].is_default
    /\ groups' = GroupsPut(groups, group, ListDel(AllLabels, j - 1))
    /\ idx' = 0
    /\ label_file' = SavedLabels(groups', group, idx')
    /\ last_op' = "delete_label"
    /\ UNCHANGED <<group, sessionVars, running, provisional_label, saves, csv_file, after_reset>>

\* save_label of LabelsScreen._open_edit_label_popup for the label at list
\* position j - 1: the edit in place, LabelManager.save, then
\* TimerScreen.refresh_laps_for_label and TimerScreen._save_to_storage
EditLabel(j, name, color, desc, auto) ==
    /\ label_ops < MaxLabelOps
    /\ label_ops' = label_ops + 1
    /\ group \in GroupKeys(groups)
    /\ j \in 1..Len(AllLabels)
    /\ ~AllLabels[j].is_default
    /\ name /= ""
    /\ groups' = GroupsPut(groups, group,
                           ListSet(AllLabels, j - 1,
                                   [name |-> name, color |-> color, desc |-> desc,
                                    is_default |-> AllLabels[j].is_default,
                                    auto_startstop |-> auto]))
    /\ label_file' = SavedLabels(groups', group, idx)
    /\ LET result == refresh_laps_for_label(laps, label_startstop_state,
                                            GroupLabels(groups', group), name)
       IN /\ laps' = result.laps
          /\ label_startstop_state' = result.states
          /\ lap_numbers' = RowNumbers(laps')
          /\ timer_file' = CurrentDoc(time, laps', label_startstop_state')
    /\ last_op' = "edit_label"
    /\ UNCHANGED <<group, idx, time, running, provisional_label, saves, csv_file, after_reset>>

\* LabelsScreen._change_group
ChangeGroup(value) ==
    /\ value \in GroupKeys(groups)
    /\ group' = value
    /\ idx' = 0
    /\ label_file' = SavedLabels(groups, group', idx')
    /\ last_op' = "other"
    /\ UNCHANGED <<groups, label_ops, sessionVars, running, provisional_label, saves, csv_file,
                   after_reset>>

\* add_group of LabelsScreen._open_add_group_popup: LabelManager.add_group,
\* then _change_group to the new group
AddGroup(name) ==
    /\ label_ops < MaxLabelOps
    /\ label_ops' = label_ops + 1
    /\ Len(groups) < MaxGroups
    /\ add_group(LM, name).ok
    /\ groups' = add_group(LM, name).lm.groups
    /\ group' = name
    /\ idx' = 0
    /\ label_file' = SavedLabels(groups', group', idx')
    /\ last_op' = "add_group"
    /\ UNCHANGED <<sessionVars, running, provisional_label, saves, csv_file, after_reset>>

\* LabelsScreen._rename_group from the edit popup of the active group
RenameGroup(new_name) ==
    /\ label_ops < MaxLabelOps
    /\ label_ops' = label_ops + 1
    /\ group /= "Default"
    /\ new_name /= "" /\ new_name /= group
    /\ rename_group(LM, group, new_name).ok
    /\ groups' = rename_group(LM, group, new_name).lm.groups
    /\ group' = new_name
    /\ idx' = 0
    /\ label_file' = SavedLabels(groups', group', idx')
    /\ last_op' = "rename_group"
    /\ UNCHANGED <<sessionVars, running, provisional_label, saves, csv_file, after_reset>>

\* LabelsScreen._delete_group from the edit popup of the active group
DeleteGroup ==
    /\ label_ops < MaxLabelOps
    /\ label_ops' = label_ops + 1
    /\ group /= "Default"
    /\ delete_group(LM, group).ok
    /\ groups' = delete_group(LM, group).lm.groups
    /\ group' = delete_group(LM, group).lm.group
    /\ idx' = 0
    /\ label_file' = SavedLabels(groups', group', idx')
    /\ last_op' = "delete_group"
    /\ UNCHANGED <<sessionVars, running, provisional_label, saves, csv_file, after_reset>>

\* ------------------------------------------------- LabelManager calls
\* what a caller of LabelManager passes as a group name
GroupNameArgs == {"", "Default", "G1", "G2"}

\* the store and the disk after the call op returned result (the methods write
\* the document only on the path that returns True); the call and the value
\* it returned are kept in last_op
Called(result, op) ==
    /\ label_ops < MaxLabelOps
    /\ label_ops' = label_ops + 1
    /\ groups' = result.lm.groups
    /\ group' = result.lm.group
    /\ idx' = result.lm.idx
    /\ label_file' = IF result.ok THEN SavedLabels(groups', group', idx') ELSE label_file
    /\ last_op' = IF result.ok THEN op \o " -> True" ELSE op \o " -> False"
    /\ UNCHANGED <<sessionVars, running, provisional_label, saves, csv_file, after_reset>>

\* a call of LabelManager.add_group
CallAddGroup(group_name) ==
    Called(add_group(LM, group_name), "add_group(" \o group_name \o ")")

\* a call of LabelManager.rename_group
CallRenameGroup(old_name, new_name) ==
    Called(rename_group(LM, old_name, new_name),
           "rename_group(" \o old_name \o ", " \o new_name \o ")")

\* a call of LabelManager.delete_group
CallDeleteGroup(group_name) ==
    Called(delete_group(LM, group_name), "delete_group(" \o group_name \o ")")

\* ------------------------------------------------------------ application
\* a label as the popups of LabelsScreen store it
Lbl(name, color, desc, auto) ==
    [name |-> name, color |-> color, desc |-> desc, is_default |-> FALSE,
     auto_startstop |-> auto]

\* label documents an earlier run of the application left on disk
InitLabelFiles ==
    { NoFile,
      [groups |-> <<[name |-> "Default",
                     labels |-> <<DefaultLabel, Lbl("Run", "red", "", TRUE)>>],
                    [name |-> "G1",
                     labels |-> <<DefaultLabel, Lbl("Run", "red", "", TRUE)>>]>>,
       group |-> "G1", idx |-> 0] }

\* the application started with no recorded session
Init == \E lf \in InitLabelFiles : Startup(lf, NoFile)

\* the timer screen: stopwatch, laps, label selection, notes
Next ==
    \/ ToggleTimer
    \/ \E dt \in TickDeltas : Tick(dt)
    \/ AddLap
    \/ Reset
    \/ \E j \in 1..MaxLabels : SelectProvisional(j)
    \/ \E i \in 1..MaxLaps, j \in 1..MaxLabels : ChangeLapLabel(i, j)
    \/ \E text \in NoteTexts : SetNote(Len(laps), text)
    \/ \E value \in GroupKeys(groups) : ChangeGroup(value)

Spec == Init /\ [][Next]_vars


\* ------------------------------------------- sequences of add_lap calls
\* label documents for runs that only record laps
AddLapLabelFiles ==
    InitLabelFiles \cup
    { [groups |-> <<[name |-> "Default",
                     labels |-> <<DefaultLabel, Lbl("Run", "red", "", TRUE)>>],
                    [name |-> "G1",
                     labels |-> <<DefaultLabel, Lbl("Run", "blue", "", FALSE)>>]>>,
       group |-> "Default", idx |-> 0],
      [groups |-> <<[name |-> "Default",
                     labels |-> <<DefaultLabel, Lbl("Run", "red", "", TRUE)>>],
                    [name |-> "G1",
                     labels |-> <<DefaultLabel, Lbl("Walk", "blue", "", TRUE)>>]>>,
       group |-> "Default", idx |-> 0] }

InitAddLap == \E lf \in AddLapLabelFiles : Startup(lf, NoFile)

\* the timer is started and laps are recorded with labels picked from any group
NextAddLap ==
    \/ ToggleTimer
    \/ \E j \in 1..MaxLabels : SelectProvisional(j)
    \/ \E value \in GroupKeys(groups) : ChangeGroup(value)
    \/ AddLapUpTo(MaxAddLaps)

SpecAddLap == InitAddLap /\ [][NextAddLap]_vars

\* ------------------------------- _recalculate_startstop_states on any list
\* labels a lap can carry: any name, flag and recorded group
AnyLapLabels ==
    { WithGroup(Lbl(name, "red", "", auto), g) :
        name \in LabelNames, auto \in BOOLEAN, g \in {"Default"} }

\* laps with any type and note, whether or not a replay would give that type
AnyLaps ==
    [t : {0}, lbl : AnyLapLabels, type : {"Start", "Stop", None}, note : {NoNote, "n"}]

AnyLapLists == UNION { [1..n -> AnyLaps] : n \in 0..MaxLen }

InitRecalc ==
    /\ LabelsStartup(NoFile)
    /\ laps \in AnyLapLists
    /\ label_startstop_state \in {EmptyDict, [k \in {"Run"} |-> TRUE]}
    /\ lap_numbers = RowNumbers(laps)
    /\ time = 0
    /\ running = FALSE
    /\ timer_file = NoFile
    /\ provisional_label = NoLabel
    /\ saves = EmptyDict
    /\ last_op = "init"
    /\ after_reset = FALSE
    /\ csv_file = <<>>

\* one call of TimerScreen._recalculate_startstop_states
Recalculate ==
    /\ laps' = _recalculate_startstop_states(laps, label_startstop_state).laps
    /\ label_startstop_state' = _recalculate_startstop_states(laps, label_startstop_state).states
    /\ last_op' = "recalculate"
    /\ UNCHANGED <<lmVars, time, running, lap_numbers, timer_file, provisional_label,
                   saves, csv_file, after_reset>>

NextRecalc == Recalculate

SpecRecalc == InitRecalc /\ [][NextRecalc]_vars


\* ------------------------------------- label editing with a recorded session
\* a lap as _add_lap records it
Lap(t, lbl, type, note) == [t |-> t, lbl |-> lbl, type |-> type, note |-> note]

\* label and autosave documents an earlier run left on disk together: no
\* files, or the groups Default and G1 with a session in which Run was
\* recorded from Default (a Start, with a note) and then from G1 (a Stop);
\* Spec reaches a state with exactly these two documents on disk
InitDisk ==
    { <<NoFile, NoFile>>,
      <<[groups |-> <<[name |-> "Default",
                       labels |-> <<DefaultLabel, Lbl("Run", "red", "", TRUE)>>],
                      [name |-> "G1",
                       labels |-> <<DefaultLabel, Lbl("Run", "red", "", TRUE)>>]>>,
         group |-> "G1", idx |-> 0],
        CurrentDoc(1, <<Lap(1, WithGroup(Lbl("Run", "red", "", TRUE), "G1"), "Stop", NoNote),
                        Lap(0, WithGroup(Lbl("Run", "red", "", TRUE), "Default"), "Start", "n")>>,
                   [k \in {"Run"} |-> FALSE])>> }

\* what the user enters in the popups for a new or an edited label
LabelForms ==
    { Lbl("Run", "red", "", TRUE), Lbl("Run", "blue", "", FALSE),
      Lbl("Walk", "blue", "d", TRUE) }

InitLabels == \E disk \in InitDisk : Startup(disk[1], disk[2])

\* the labels screen, and leaving and restarting the application
NextLabels ==
    \/ \E form \in LabelForms :
          AddLabel(form.name, form.color, form.desc, form.auto_startstop)
    \/ \E j \in 1..MaxLabels : DeleteLabel(j)
    \/ \E j \in 1..MaxLabels, form \in LabelForms :
          EditLabel(j, form.name, form.color, form.desc, form.auto_startstop)
    \/ \E value \in GroupKeys(groups) : ChangeGroup(value)
    \/ \E name \in NewGroupNames : AddGroup(name)
    \/ \E new_name \in NewGroupNames : RenameGroup(new_name)
    \/ DeleteGroup
    \/ Restart

SpecLabels == InitLabels /\ [][NextLabels]_vars

\* ------------------------------------------------- names of save states
\* save states are created, loaded and deleted; the session is the recorded
\* one or, after a reset, the empty one
NextSaveNames ==
    \/ \E name \in SaveNames, now \in Nows : SaveState(name, now)
    \/ \E name \in DOMAIN saves : LoadState(name)
    \/ \E name \in DOMAIN saves : DeleteSaveState(name)
    \/ Reset

SpecSaveNames == InitLabels /\ [][NextSaveNames]_vars

\* ------------------------------------- save states next to a live session
InitSnapshots == Startup(NoFile, NoFile)

\* laps are recorded, relabelled, annotated and reset while save states are
\* created, loaded and deleted
NextSnapshots ==
    \/ ToggleTimer
    \/ AddLapUpTo(MaxSavedLaps)
    \/ \E i \in 1..MaxSavedLaps, j \in 1..MaxLabels : ChangeLapLabel(i, j)
    \/ \E text \in NoteTexts : SetNote(Len(laps), text)
    \/ Reset
    \/ \E name \in {"Run"}, now \in Nows : SaveStateUpTo(MaxSnapshots, name, now)
    \/ \E name \in DOMAIN saves : LoadState(name)
    \/ \E name \in DOMAIN saves : DeleteSaveState(name)

SpecSnapshots == InitSnapshots /\ [][NextSnapshots]_vars

\* ===================================================================== claims
\* the auto laps named label_name at list index i or later (as old or older)
AutoLapsFrom(ls, i, label_name) ==
    {j \in i..Len(ls) : ls[j].lbl.auto_startstop /\ ls[j].lbl.name = label_name}

\* the type a chronological replay gives the lap at index i: an auto lap is a
\* Start when it is the 1st, 3rd, ... auto lap of its name, counted from the oldest
ReplayType(ls, i) ==
    IF ~ls[i].lbl.auto_startstop
    THEN None
    ELSE IF Cardinality(AutoLapsFrom(ls, i, ls[i].lbl.name)) % 2 = 1 THEN "Start" ELSE "Stop"

ReplayLaps(ls) ==
    [i \in 1..Len(ls) |->
        [t |-> ls[i].t, lbl |-> ls[i].lbl, type |-> ReplayType(ls, i), note |-> ls[i].note]]

\* the toggle map of a replay: an entry for each name with an auto lap, true
\* when the number of auto laps of the name is odd
ReplayStates(ls) ==
    [n \in {ls[j].lbl.name : j \in {h \in 1..Len(ls) : ls[h].lbl.auto_startstop}} |->
        Cardinality(AutoLapsFrom(ls, 1, n)) % 2 = 1]

\* C1: the toggle map is the map a chronological replay of the laps gives
C1_ToggleIsReplay == label_startstop_state = ReplayStates(laps)

\* C2: in a run that only records laps, the auto laps of one label name, read
\* oldest to newest, have the types Start, Stop, Start, ...: the oldest is a
\* Start and each later one differs from the auto lap of that name before it,
\* whatever laps of other labels lie between them
C2_AddLapAlternates ==
    \A i \in 1..Len(laps) :
        laps[i].lbl.auto_startstop =>
            LET older == AutoLapsFrom(laps, i + 1, laps[i].lbl.name)
            IN /\ laps[i].type \in {"Start", "Stop"}
               /\ older = {} => laps[i].type = "Start"
               /\ older /= {} =>
                     laps[i].type /= laps[CHOOSE j \in older : \A h \in older : j <= h].type

\* two Run laps with a lap of another label recorded between them
C2_Witness ==
    /\ last_op = "add_lap"
    /\ Len(laps) = 3
    /\ laps[3].lbl.name = "Run" /\ laps[3].type = "Start"
    /\ laps[2].lbl.name /= "Run"
    /\ laps[1].lbl.name = "Run" /\ laps[1].type = "Stop"

\* C3: one call of _recalculate_startstop_states turns any lap list into the
\* result of the reference replay (types by the count of auto laps of the
\* name, null for non-auto laps, every other field kept) and replaces the
\* toggle map by the replay's map
C3_RecalcIsReplay ==
    [][last_op' = "recalculate" =>
          /\ laps' = ReplayLaps(laps)
          /\ label_startstop_state' = ReplayStates(laps)]_vars

\* a recalculated list of three laps with a Stop and a non-auto lap that had a type
C3_Witness ==
    /\ last_op = "recalculate"
    /\ Len(laps) = 3
    /\ \E i \in 1..3 : laps[i].type = "Stop"
    /\ \E i \in 1..3 : ~laps[i].lbl.auto_startstop /\ laps[i].note = "n"
    /\ label_startstop_state = [k \in {"Run"} |-> FALSE]

\* C4: right after a call of _recalculate_startstop_states a second call
\* returns the very same laps and toggle map
C4_RecalcIdempotent ==
    last_op = "recalculate" =>
        _recalculate_startstop_states(laps, label_startstop_state) =
            [laps |-> laps, states |-> label_startstop_state]

\* a recalculated list in which two names have auto laps
C4_Witness ==
    /\ last_op = "recalculate"
    /\ Len(laps) = 3
    /\ label_startstop_state = [k \in {"Run", "Walk"} |-> IF k = "Run" THEN FALSE ELSE TRUE]

\* C5: after a lap got a new label from its row's spinner, every lap of the
\* history has the type of a chronological replay (null for every lap with a
\* non-auto label, the changed one included) and the toggle map is the
\* replay's map
C5_ChangeLabelReplays ==
    last_op = "change_lap_label" =>
        /\ laps = ReplayLaps(laps)
        /\ label_startstop_state = ReplayStates(laps)

\* the older lap was given a non-auto label and the newer Run lap is a Start
C5_Witness ==
    /\ last_op = "change_lap_label"
    /\ Len(laps) = 2
    /\ laps[2].lbl.group = NoGroup /\ ~laps[2].lbl.auto_startstop /\ laps[2].type = None
    /\ laps[1].lbl.group /= NoGroup /\ laps[1].lbl.auto_startstop /\ laps[1].type = "Start"
    /\ label_startstop_state = [k \in {"Run"} |-> TRUE]

\* some label of the group with the name
HasLabel(gs, g, label_name) ==
    g \in GroupKeys(gs) /\ FirstNamed(GroupLabels(gs, g), label_name) /= 0

\* C6: the laps hold copies of their labels: adding or deleting a label,
\* creating, renaming, deleting or switching a group (the label manager
\* changes that are not followed by a re-sync of the laps) leave every field
\* of every lap and the toggle map as they were, and when a label is saved
\* under a name, the laps recorded under any other name (the label's old name
\* included) keep their copy
C6_LapsKeepTheirCopy ==
    /\ [][(\/ last_op' \in {"add_label", "delete_label", "add_group", "rename_group",
                            "delete_group"}
           \/ \E value \in GroupKeys(groups) : ChangeGroup(value)) =>
             /\ laps' = laps
             /\ label_startstop_state' = label_startstop_state]_vars
    /\ [][\A j \in 1..MaxLabels, form \in LabelForms :
             EditLabel(j, form.name, form.color, form.desc, form.auto_startstop) =>
                /\ Len(laps') = Len(laps)
                /\ \A i \in 1..Len(laps) :
                      laps[i].lbl.name /= form.name => laps'[i].lbl = laps[i].lbl]_vars

\* the label Run of group Default was deleted and a lap still carries it
C6_Witness ==
    /\ last_op = "delete_label"
    /\ ~HasLabel(groups, "Default", "Run")
    /\ \E i \in 1..Len(laps) :
          /\ laps[i].lbl.name = "Run" /\ laps[i].lbl.group = "Default"
          /\ laps[i].lbl.auto_startstop /\ laps[i].type = "Start" /\ laps[i].note = "n"

\* C7: saving an edited label gives every lap with the label's name a copy of
\* the current definition that keeps the group name the lap recorded, keeps
\* the label of every other lap, and keeps the number of laps and the time,
\* note and position of each
C7_RelabelKeepsGroup ==
    [][\A j \in 1..MaxLabels, form \in LabelForms :
          EditLabel(j, form.name, form.color, form.desc, form.auto_startstop) =>
             /\ Len(laps') = Len(laps)
             /\ \A i \in 1..Len(laps) :
                   /\ laps'[i].t = laps[i].t
                   /\ laps'[i].note = laps[i].note
                   /\ laps'[i].lbl =
                         IF laps[i].lbl.name = form.name
                         THEN WithGroup(GroupLabels(groups', group')
                                           [FirstNamed(GroupLabels(groups', group'), form.name)],
                                        laps[i].lbl.group)
                         ELSE laps[i].lbl]_vars

\* C8: _add_lap puts the new lap at list position 0 and keeps the old laps as
\* they were and in their order, and no step that keeps the laps changes the
\* number shown for a lap (count - position)
C8_AddLapPrepends ==
    /\ [][last_op' = "add_lap" =>
             /\ Len(laps') = Len(laps) + 1
             /\ laps' = <<laps'[1]>> \o laps
             /\ lap_numbers' = <<Len(laps')>> \o lap_numbers]_vars
    /\ [][Len(laps') >= Len(laps) =>
             /\ Len(lap_numbers') = Len(laps')
             /\ \A j \in 1..Len(laps') : lap_numbers'[j] = Len(laps') - (j - 1)
             /\ \A j \in 1..Len(laps) :
                   lap_numbers'[j + Len(laps') - Len(laps)] = lap_numbers[j]]_vars

C8_Witness ==
    /\ last_op = "add_lap"
    /\ Len(laps) = 2
    /\ lap_numbers = <<2, 1>>
    /\ laps[2].note = "n"

\* C9: _add_lap reads and writes the toggle map under the label name alone: an
\* auto lap is a Start when the entry of its name is false or missing and a
\* Stop otherwise, whatever group the label came from, and the entry is
\* flipped; a non-auto lap has no type and leaves the map as it was
C9_ToggleKeyedByName ==
    [][last_op' = "add_lap" =>
          LET new == laps'[1]
              was == DictGet(label_startstop_state, new.lbl.name)
          IN IF new.lbl.auto_startstop
             THEN /\ new.type = (IF was THEN "Stop" ELSE "Start")
                  /\ label_startstop_state' =
                        DictPut(label_startstop_state, new.lbl.name, ~was)
                  /\ (/\ Len(laps) > 0
                      /\ laps[1].lbl.auto_startstop
                      /\ laps[1].lbl.name = new.lbl.name
                      /\ laps[1].type = "Start") => new.type = "Stop"
             ELSE /\ new.type = None
                  /\ label_startstop_state' = label_startstop_state]_vars

\* a Run lap recorded from group Default, then a Run lap recorded from group G1
C9_Witness ==
    /\ last_op = "add_lap"
    /\ Len(laps) = 2
    /\ laps[2].lbl.name = "Run" /\ laps[2].lbl.group = "Default" /\ laps[2].type = "Start"
    /\ laps[1].lbl.name = "Run" /\ laps[1].lbl.group = "G1" /\ laps[1].type = "Stop"

\* C10: _reset sets the time to 0 and empties laps and toggle map and leaves
\* the label manager alone, and the first lap recorded after it with an auto
\* label is a Start
C10_Reset ==
    /\ [][last_op' = "reset" =>
             /\ time' = 0
             /\ laps' = <<>>
             /\ label_startstop_state' = EmptyDict
             /\ UNCHANGED <<groups, group, idx, label_file>>]_vars
    /\ [][(after_reset /\ last_op' = "add_lap" /\ laps'[1].lbl.auto_startstop) =>
             laps'[1].type = "Start"]_vars

\* a session was reset and the timer runs again with an auto label selected
C10_Witness ==
    /\ after_reset
    /\ running
    /\ time > 0
    /\ laps = <<>>
    /\ provisional_label /= NoLabel
    /\ provisional_label.auto_startstop
    /\ Len(groups) = 2

\* C11: a save state is written under the name given when no save state has
\* it, and otherwise under name(k) for the smallest k >= 1 such that name(k) is
\* no save state; so "Run" gives Run, Run(1), Run(2) on an empty directory and
\* Run(1) again once Run(1) was deleted
C11_UniqueName ==
    /\ [][\A name \in SaveNames, now \in Nows :
             SaveState(name, now) =>
                LET added == (DOMAIN saves') \ (DOMAIN saves)
                IN /\ Cardinality(added) = 1
                   /\ name \notin DOMAIN saves => added = {name}
                   /\ name \in DOMAIN saves =>
                         \E k \in 1..MaxSaves :
                            /\ added = {name \o "(" \o ToString(k) \o ")"}
                            /\ \A h \in 1..(k - 1) :
                                  (name \o "(" \o ToString(h) \o ")") \in DOMAIN saves]_vars
    /\ [][\A now \in Nows :
             SaveState("Run", now) =>
                /\ DOMAIN saves = {} => DOMAIN saves' = {"Run"}
                /\ DOMAIN saves = {"Run"} => DOMAIN saves' = {"Run", "Run(1)"}
                /\ DOMAIN saves = {"Run", "Run(1)"} =>
                      DOMAIN saves' = {"Run", "Run(1)", "Run(2)"}
                /\ DOMAIN saves = {"Run", "Run(2)"} =>
                      DOMAIN saves' = {"Run", "Run(1)", "Run(2)"}]_vars

\* Run, Run(1) and Run(2) exist, and Run(1) was written last, after a reset,
\* when Run(2) was there already
C11_Witness ==
    /\ last_op = "save_state"
    /\ laps = <<>>
    /\ DOMAIN saves = {"Run", "Run(1)", "Run(2)"}
    /\ saves["Run"].laps /= <<>>
    /\ saves["Run(2)"].laps /= <<>>
    /\ saves["Run(1)"].laps = <<>>

\* C12: a save state keeps its content until it is deleted under its own name:
\* every step keeps the document of every save state or is the deletion of
\* that save state, and creating a save state adds one and overwrites none
C12_SnapshotImmutable ==
    /\ [][\A n \in DOMAIN saves :
             \/ n \in DOMAIN saves' /\ saves'[n] = saves[n]
             \/ DeleteSaveState(n)]_vars
    /\ [][\A now \in Nows :
             SaveStateUpTo(MaxSnapshots, "Run", now) =>
                Cardinality(DOMAIN saves') = Cardinality(DOMAIN saves) + 1]_vars
    /\ [][last_op' \in {"add_lap", "change_lap_label", "reset", "load_state", "other"} =>
             saves' = saves]_vars

\* two save states with different sessions, and a live session that was
\* loaded from one, relabelled and differs from both
C12_Witness ==
    /\ last_op = "change_lap_label"
    /\ DOMAIN saves = {"Run", "Run(1)"}
    /\ saves["Run"] /= saves["Run(1)"]
    /\ Len(laps) = 1
    /\ laps[1].note = "n"
    /\ LoadDoc(saves["Run"]).laps /= laps
    /\ LoadDoc(saves["Run(1)"]).laps /= laps
    /\ LoadDoc(saves["Run(1)"]).laps /= <<>>

\* C13: for every session, the dict load_current_state returns for the
\* document save_current_state writes has the time, the laps (every field, in
\* order) and the toggle map of the session
C13_CurrentRoundTrip ==
    LoadDoc(CurrentDoc(time, laps, label_startstop_state)) =
        [time |-> time, laps |-> laps, label_startstop_state |-> label_startstop_state]

\* the autosave document of a session with a note, a lap without type, a lap
\* without group, a Start, and time passed
C13_Witness ==
    /\ timer_file = CurrentDoc(time, laps, label_startstop_state)
    /\ time > 0
    /\ Len(laps) = 2
    /\ laps[2].note = "n" /\ laps[2].type = None /\ laps[2].lbl.group = NoGroup
    /\ laps[1].note = NoNote /\ laps[1].type = "Start" /\ laps[1].lbl.group /= NoGroup
    /\ label_startstop_state = [k \in {"Run"} |-> TRUE]

\* --------------------------------------------------------- label store
\* LabelManager's group methods called with any argument, between group
\* switches and label selections for the next lap
NextGroups ==
    \/ \E group_name \in GroupNameArgs : CallAddGroup(group_name)
    \/ \E old_name \in GroupNameArgs, new_name \in GroupNameArgs :
          CallRenameGroup(old_name, new_name)
    \/ \E group_name \in GroupNameArgs : CallDeleteGroup(group_name)
    \/ \E value \in GroupKeys(groups) : ChangeGroup(value)
    \/ \E j \in 1..MaxLabels : SelectProvisional(j)

SpecGroups == Init /\ [][NextGroups]_vars

\* what the user enters in the label popups, "Default" included
StoreForms ==
    { Lbl("Run", "red", "", TRUE), Lbl("Walk", "blue", "d", FALSE),
      Lbl("Default", "red", "", FALSE) }

\* every handler that writes the label store, and restarting the application
NextStore ==
    \/ \E form \in StoreForms :
          AddLabel(form.name, form.color, form.desc, form.auto_startstop)
    \/ \E j \in 1..MaxLabels : DeleteLabel(j)
    \/ \E j \in 1..MaxLabels, form \in StoreForms :
          EditLabel(j, form.name, form.color, form.desc, form.auto_startstop)
    \/ \E value \in GroupKeys(groups) : ChangeGroup(value)
    \/ \E name \in NewGroupNames : AddGroup(name)
    \/ \E new_name \in NewGroupNames : RenameGroup(new_name)
    \/ DeleteGroup
    \/ \E j \in 1..MaxLabels : SelectProvisional(j)
    \/ Restart

SpecStore == Init /\ [][NextStore]_vars

\* C14: delete_group("Default") and rename_group("Default", x) return False
\* and leave the groups, the active group and the active index as they are
C14_DefaultGroupKept ==
    /\ [][CallDeleteGroup("Default") =>
             /\ last_op' = "delete_group(Default) -> False"
             /\ groups' = groups /\ group' = group /\ idx' = idx]_vars
    /\ [][\A x \in GroupNameArgs :
             CallRenameGroup("Default", x) =>
                /\ last_op' = "rename_group(Default, " \o x \o ") -> False"
                /\ groups' = groups /\ group' = group /\ idx' = idx]_vars

\* rename_group("Default", "G2") was refused while G1 was active with its
\* second label selected and G2 was a free name
C14_Witness ==
    /\ last_op = "rename_group(Default, G2) -> False"
    /\ group = "G1" /\ idx = 1
    /\ GroupKeys(groups) = {"Default", "G1"}

\* C18: add_group(name) returns False and changes nothing when name is empty
\* or a group; otherwise it returns True and adds a group with the single
\* label Default (is_default true, auto_startstop false), leaving every other
\* group, the active group and the active index as they are
C18_AddGroup ==
    [][\A name \in GroupNameArgs :
          CallAddGroup(name) =>
             IF name = "" \/ name \in GroupKeys(groups)
             THEN /\ last_op' = "add_group(" \o name \o ") -> False"
                  /\ groups' = groups /\ group' = group /\ idx' = idx
                  /\ label_file' = label_file
             ELSE /\ last_op' = "add_group(" \o name \o ") -> True"
                  /\ GroupKeys(groups') = GroupKeys(groups) \cup {name}
                  /\ Len(groups') = Len(groups) + 1
                  /\ Len(GroupLabels(groups', name)) = 1
                  /\ GroupLabels(groups', name)[1].name = "Default"
                  /\ GroupLabels(groups', name)[1].is_default
                  /\ ~GroupLabels(groups', name)[1].auto_startstop
                  /\ \A g \in GroupKeys(groups) :
                        GroupLabels(groups', g) = GroupLabels(groups, g)
                  /\ group' = group /\ idx' = idx]_vars

\* G2 was added while G1 was active with its second label selected
C18_Witness ==
    /\ last_op = "add_group(G2) -> True"
    /\ group = "G1" /\ idx = 1
    /\ GroupKeys(groups) = {"Default", "G1", "G2"}
    /\ Len(GroupLabels(groups, "G1")) = 2

\* C19: rename_group(old, new) returns False and changes nothing when new is
\* empty, new is a group, old is no group or old is "Default"; otherwise it
\* returns True, the label list of old is that of new, old is gone, the number
\* of groups is the same, and the active group is new if it was old and is
\* unchanged otherwise, with the active index unchanged
C19_RenameGroup ==
    [][\A old \in GroupNameArgs, new \in GroupNameArgs :
          CallRenameGroup(old, new) =>
             IF \/ new = "" \/ new \in GroupKeys(groups)
                \/ old \notin GroupKeys(groups) \/ old = "Default"
             THEN /\ last_op' = "rename_group(" \o old \o ", " \o new \o ") -> False"
                  /\ groups' = groups /\ group' = group /\ idx' = idx
                  /\ label_file' = label_file
             ELSE /\ last_op' = "rename_group(" \o old \o ", " \o new \o ") -> True"
                  /\ GroupKeys(groups') = (GroupKeys(groups) \ {old}) \cup {new}
                  /\ GroupLabels(groups', new) = GroupLabels(groups, old)
                  /\ Len(groups') = Len(groups)
                  /\ \A g \in GroupKeys(groups) \ {old} :
                        GroupLabels(groups', g) = GroupLabels(groups, g)
                  /\ group' = (IF group = old THEN new ELSE group)
                  /\ idx' = idx]_vars

\* the active group G1 was renamed to G2 with its second label selected
C19_Witness ==
    /\ last_op = "rename_group(G1, G2) -> True"
    /\ group = "G2" /\ idx = 1
    /\ GroupKeys(groups) = {"Default", "G2"}
    /\ Len(GroupLabels(groups, "G2")) = 2

\* C20: delete_group(name) returns False and changes nothing when name is
\* "Default" or no group; otherwise exactly that group is removed, and the
\* active group and index become "Default" and 0 if the group was active and
\* are unchanged otherwise
C20_DeleteGroup ==
    [][\A name \in GroupNameArgs :
          CallDeleteGroup(name) =>
             IF name = "Default" \/ name \notin GroupKeys(groups)
             THEN /\ last_op' = "delete_group(" \o name \o ") -> False"
                  /\ groups' = groups /\ group' = group /\ idx' = idx
                  /\ label_file' = label_file
             ELSE /\ last_op' = "delete_group(" \o name \o ") -> True"
                  /\ GroupKeys(groups') = GroupKeys(groups) \ {name}
                  /\ Len(groups') = Len(groups) - 1
                  /\ \A g \in GroupKeys(groups) \ {name} :
                        GroupLabels(groups', g) = GroupLabels(groups, g)
                  /\ IF group = name
                     THEN group' = "Default" /\ idx' = 0
                     ELSE group' = group /\ idx' = idx]_vars

\* G1 was deleted while G2 was active with its second label selected
C20_Witness ==
    /\ last_op = "delete_group(G1) -> True"
    /\ group = "G2" /\ idx = 1
    /\ GroupKeys(groups) = {"Default", "G2"}

\* C15: in every state of the label store the active group is a key of groups
\* and the active index is a position of the active group's label list
C15_ActiveValid ==
    \E j \in 1..Len(groups) :
       /\ groups[j].name = group
       /\ idx >= 0
       /\ idx < Len(groups[j].labels)

\* the label selected for the next lap (Run, at position 1 of G1) was deleted:
\* G1 is left with one label and the index is back at 0
C15_Witness ==
    /\ last_op = "delete_label"
    /\ provisional_label /= NoLabel
    /\ provisional_label.name = "Run" /\ provisional_label.group = "G1"
    /\ group = "G1" /\ idx = 0
    /\ Len(GroupLabels(groups, "G1")) = 1

\* C16: in every state of the label store, the state right after a start from
\* the stored document included, there is a group "Default" and every group
\* has at least one label
C16_DefaultGroupAndLabel ==
    /\ \E j \in 1..Len(groups) : groups[j].name = "Default"
    /\ \A j \in 1..Len(groups) : Len(groups[j].labels) >= 1

\* the application was started again after every label that can be deleted
\* was deleted from both groups
C16_Witness ==
    /\ last_op = "restart"
    /\ label_ops >= 2
    /\ Len(groups) = 2
    /\ \A j \in 1..Len(groups) : Len(groups[j].labels) = 1
    /\ label_file.groups = groups

\* C17: every group has exactly one label named "Default", that label has
\* is_default true, and no two labels of a group have the same name
C17_DefaultLabelUnique ==
    \A j \in 1..Len(groups) :
       LET labels == groups[j].labels
       IN /\ Cardinality({i \in 1..Len(labels) : labels[i].name = "Default"}) = 1
          /\ \A i \in 1..Len(labels) : labels[i].name = "Default" => labels[i].is_default
          /\ \A a \in 1..Len(labels), b \in 1..Len(labels) :
                labels[a].name = labels[b].name => a = b

\* --------------------------------------------------------- CSV export
\* Python values of the cells _build_csv_content puts into a row
PyStr(s) == [str |-> s]
PyInt(n) == [int |-> n]
PyNone == [none |-> TRUE]

\* f"{n:02d}" and f"{n:03d}"
Pad(n, width) ==
    IF width = 3 /\ n < 10 THEN "00" \o ToString(n)
    ELSE IF width = 3 /\ n < 100 THEN "0" \o ToString(n)
    ELSE IF width = 2 /\ n < 10 THEN "0" \o ToString(n)
    ELSE ToString(n)

\* utils.formatting.format_time for a whole number of seconds
format_time(seconds) ==
    ToString(seconds \div 60) \o ":" \o Pad(seconds % 60, 2) \o "." \o Pad(0, 3)

\* the names of the model in the order of Python's str comparison
StrOrder == <<"Default", "G1", "G2", "Run", "Walk">>

\* sorted(names)
Sorted(names) == SelectSeq(StrOrder, LAMBDA n : n \in names)

\* label.get('group', 'Default') and label.get('desc', '')
LegendGroup(lbl) == IF lbl.group = NoGroup THEN "Default" ELSE lbl.group
LegendDesc(lbl) == IF lbl.desc = NoDesc THEN "" ELSE lbl.desc

\* faulty variant: the labels are collected under their name only
_collect_by_name(ls) ==
    LET first(n) == CHOOSE i \in 1..Len(ls) :
                       /\ ls[i].lbl.name = n
                       /\ \A h \in 1..(i - 1) : ls[h].lbl.name /= n
    IN [g \in {"Default"} |->
          [n \in {ls[i].lbl.name : i \in 1..Len(ls)} |->
              [desc |-> LegendDesc(ls[first(n)].lbl),
               auto_startstop |-> ls[first(n)].lbl.auto_startstop]]]

\* CSVExporter._collect_labels_by_group: for each group of a lap the names
\* of its labels, each with the desc and auto_startstop of the first lap in
\* list order that has the group and the name
_collect_labels_by_group(ls) ==
    LET first(g, n) == CHOOSE i \in 1..Len(ls) :
                          /\ LegendGroup(ls[i].lbl) = g /\ ls[i].lbl.name = n
                          /\ \A h \in 1..(i - 1) :
                                ~(LegendGroup(ls[h].lbl) = g /\ ls[h].lbl.name = n)
    IN [g \in {LegendGroup(ls[i].lbl) : i \in 1..Len(ls)} |->
          [n \in {ls[i].lbl.name : i \in {h \in 1..Len(ls) : LegendGroup(ls[h].lbl) = g}} |->
              [desc |-> LegendDesc(ls[first(g, n)].lbl),
               auto_startstop |-> ls[first(g, n)].lbl.auto_startstop]]]

\* the rows of one group: its heading, then its labels sorted by name
GroupRows(group_name, labels) ==
    <<<<PyStr("#   Group: " \o group_name)>>>> \o
    [k \in 1..Len(Sorted(DOMAIN labels)) |->
        <<PyStr("#     " \o Sorted(DOMAIN labels)[k]),
          PyStr(labels[Sorted(DOMAIN labels)[k]].desc),
          PyStr(IF labels[Sorted(DOMAIN labels)[k]].auto_startstop THEN "Start/Stop" ELSE "")>>]

RECURSIVE LegendRows(_, _)
LegendRows(labels_by_group, group_names) ==
    IF group_names = <<>>
    THEN <<>>
    ELSE GroupRows(Head(group_names), labels_by_group[Head(group_names)])
         \o LegendRows(labels_by_group, Tail(group_names))

\* CSVExporter._build_label_info
_build_label_info(ls) ==
    << <<PyStr("# Used Labels:")>>,
       <<PyStr("#     Name"), PyStr("Description"), PyStr("SpecialType")>> >>
    \o LegendRows(_collect_labels_by_group(ls), Sorted(DOMAIN _collect_labels_by_group(ls)))

\* faulty variant: the laps are written in list order, newest first
LapRows_Newest(ls) ==
    [i \in 1..Len(ls) |->
        <<PyInt(i), PyStr(format_time(ls[i].t)), PyStr(ls[i].lbl.name),
          IF ls[i].type = None THEN PyNone ELSE PyStr(ls[i].type),
          PyStr(IF ls[i].note = NoNote THEN "" ELSE ls[i].note)>>]

\* the lap rows of CSVExporter._build_csv_content: enumerate(reversed(laps))
LapRows(ls) ==
    [i \in 1..Len(ls) |->
        LET lap == ls[Len(ls) + 1 - i]
        IN <<PyInt(i), PyStr(format_time(lap.t)), PyStr(lap.lbl.name),
             IF lap.type = None THEN PyNone ELSE PyStr(lap.type),
             PyStr(IF lap.note = NoNote THEN "" ELSE lap.note)>>]

\* CSVExporter._build_csv_content
_build_csv_content(state_name, saved_at, total_time, ls) ==
    << <<PyStr("# Save State Export")>>,
       <<PyStr("# Name:"), PyStr(state_name)>>,
       <<PyStr("# Created:"), PyStr(saved_at)>>,
       <<PyStr("# Total Time:"), PyStr(format_time(total_time))>>,
       <<PyStr("# Total Laps:"), PyInt(Len(ls))>>,
       <<>> >>
    \o _build_label_info(ls)
    \o << <<>>,
          <<PyStr("Lap"), PyStr("Time"), PyStr("Label"), PyStr("SpecialType"), PyStr("Note")>> >>
    \o LapRows(ls)

\* the text csv.writer writes for a cell: str() of the value, and nothing for None
CsvText(cell) ==
    IF cell = PyNone THEN ""
    ELSE IF "int" \in DOMAIN cell THEN ToString(cell.int)
    ELSE cell.str

\* CSVExporter._write_csv_file
_write_csv_file(content) ==
    [r \in 1..Len(content) |-> [c \in 1..Len(content[r]) |-> CsvText(content[r][c])]]

\* TimerScreen._export_save_state_to_csv / CSVExporter.export_save_state of a
\* save state whose file is then written
ExportSaveState(state_name) ==
    /\ state_name \in DOMAIN saves
    /\ csv_file' = _write_csv_file(
                      _build_csv_content(state_name, saves[state_name].saved_at.str,
                                         LoadDoc(saves[state_name]).time,
                                         LoadDoc(saves[state_name]).laps))
    /\ last_op' = "export"
    /\ UNCHANGED <<lmVars, sessionVars, running, provisional_label, saves, after_reset>>

\* elapsed times of the exported sessions
ExportTimes == {5, 65}

\* labels as laps of a save state carry them: recorded from Default or G1,
\* or without a group key
ExportLabels ==
    { WithGroup(DefaultLabel, "Default"),
      WithGroup(Lbl("Run", "red", "", TRUE), "Default"),
      WithGroup(Lbl("Run", "red", "", TRUE), "G1"),
      WithGroup(Lbl("Run", "red", "", FALSE), "G1"),
      WithGroup(Lbl("Walk", "blue", "d", TRUE), NoGroup) }

ExportLaps ==
    { lap \in [t : ExportTimes, lbl : ExportLabels, type : {"Start", "Stop", None},
               note : {NoNote, "n"}] :
        lap.lbl.auto_startstop <=> lap.type /= None }

\* lap lists, newest first, no lap later than a newer one
ExportLapLists ==
    { ls \in UNION { [1..n -> ExportLaps] : n \in 0..MaxExportLaps } :
        \A i \in 1..(Len(ls) - 1) : ls[i].t >= ls[i + 1].t }

\* the application started with one save state in the saves directory
InitExport ==
    /\ LabelsStartup(NoFile)
    /\ time = 0
    /\ laps = <<>>
    /\ label_startstop_state = EmptyDict
    /\ lap_numbers = RowNumbers(laps)
    /\ timer_file = NoFile
    /\ running = FALSE
    /\ provisional_label = NoLabel
    /\ \E ls \in ExportLapLists, now \in Nows :
          saves = [n \in {"Run"} |-> SaveDoc(65, ls, EmptyDict, now)]
    /\ last_op = "init"
    /\ after_reset = FALSE
    /\ csv_file = <<>>

NextExport == \E state_name \in DOMAIN saves : ExportSaveState(state_name)

SpecExport == InitExport /\ [][NextExport]_vars

\* the laps of the exported save state, and the place of the column header
\* row in the file
ExportedLaps == LoadDoc(saves["Run"]).laps
HeaderAt == CHOOSE r \in 1..Len(csv_file) :
               csv_file[r] = <<"Lap", "Time", "Label", "SpecialType", "Note">>

\* C21: the exported file has one data row per lap of the save state, oldest
\* lap first, numbered 1..n, each with the lap's formatted time, label name,
\* type (empty for a lap without type) and note (empty without a note), and
\* the '# Total Laps:' row holds n
C21_ExportRows ==
    last_op = "export" =>
       LET n == Len(ExportedLaps)
       IN /\ \E r \in 1..Len(csv_file) :
                csv_file[r] = <<"Lap", "Time", "Label", "SpecialType", "Note">>
          /\ Len(csv_file) = HeaderAt + n
          /\ \A i \in 1..n :
                LET lap == ExportedLaps[n + 1 - i]
                IN csv_file[HeaderAt + i] =
                      <<ToString(i),
                        IF lap.t = 5 THEN "0:05.000" ELSE "1:05.000",
                        lap.lbl.name,
                        IF lap.type = None THEN "" ELSE lap.type,
                        IF lap.note = NoNote THEN "" ELSE lap.note>>
          /\ csv_file[5] = <<"# Total Laps:", ToString(n)>>

\* a save state of two laps was exported: the older lap (0:05, no type, no
\* note) is row 1, the newer one (1:05, a Stop with a note) is row 2
C21_Witness ==
    /\ last_op = "export"
    /\ Len(ExportedLaps) = 2
    /\ ExportedLaps[1].t = 65 /\ ExportedLaps[1].type = "Stop" /\ ExportedLaps[1].note = "n"
    /\ ExportedLaps[2].t = 5 /\ ExportedLaps[2].type = None /\ ExportedLaps[2].note = NoNote
    /\ csv_file[Len(csv_file)][1] = "2"
    /\ csv_file[Len(csv_file)][2] = "1:05.000"

\* the legend rows of the exported file: those between the legend's column
\* row and the blank row before the column header row
LegendAt(k) == csv_file[8 + k]
LegendLen == HeaderAt - 2 - 8
IsHeading(k) == Len(LegendAt(k)) = 1
\* the heading the label row k stands under
HeadingOf(k) ==
    LegendAt(CHOOSE h \in 1..k :
                /\ IsHeading(h)
                /\ \A m \in (h + 1)..k : ~IsHeading(m))[1]
\* the group name a lap recorded ("Default" when it recorded none)
RecordedGroup(lap) == IF lap.lbl.group = NoGroup THEN "Default" ELSE lap.lbl.group
\* position of a name in ascending order
Rank(name) == CHOOSE k \in 1..Len(StrOrder) : StrOrder[k] = name

\* C22: the legend of the exported file has exactly one entry for each
\* (recorded group, label name) pair of the save state's laps and no other
\* entry, each under the heading of its group, groups and the labels of a
\* group in ascending name order, with the Start/Stop marker exactly when the
\* label (as carried by the first lap in list order with that pair) has
\* auto_startstop
C22_ExportLegend ==
    last_op = "export" =>
       LET pairs == {<<RecordedGroup(ExportedLaps[i]), ExportedLaps[i].lbl.name>> :
                        i \in 1..Len(ExportedLaps)}
           labelRows == {k \in 1..LegendLen : ~IsHeading(k)}
           headings == {k \in 1..LegendLen : IsHeading(k)}
           entry(k) == <<HeadingOf(k), LegendAt(k)[1]>>
       IN /\ csv_file[8] = <<"#     Name", "Description", "SpecialType">>
          /\ csv_file[HeaderAt - 1] = <<>>
          /\ \A k \in labelRows : Len(LegendAt(k)) = 3 /\ \E h \in 1..k : IsHeading(h)
          /\ Cardinality(labelRows) = Cardinality(pairs)
          /\ \A pr \in pairs :
                \E k \in labelRows :
                   /\ entry(k) = <<"#   Group: " \o pr[1], "#     " \o pr[2]>>
                   /\ LET first == CHOOSE i \in 1..Len(ExportedLaps) :
                                      /\ RecordedGroup(ExportedLaps[i]) = pr[1]
                                      /\ ExportedLaps[i].lbl.name = pr[2]
                                      /\ \A h \in 1..(i - 1) :
                                            \/ RecordedGroup(ExportedLaps[h]) /= pr[1]
                                            \/ ExportedLaps[h].lbl.name /= pr[2]
                      IN LegendAt(k)[3] = "Start/Stop" <=>
                            ExportedLaps[first].lbl.auto_startstop
          /\ Cardinality(headings) = Cardinality({pr[1] : pr \in pairs})
          /\ \A g \in {pr[1] : pr \in pairs}, g2 \in {pr[1] : pr \in pairs} :
                Rank(g) < Rank(g2) =>
                   \E h \in headings, h2 \in headings :
                      /\ h < h2
                      /\ LegendAt(h)[1] = "#   Group: " \o g
                      /\ LegendAt(h2)[1] = "#   Group: " \o g2
          /\ \A pr \in pairs, pr2 \in pairs :
                (pr[1] = pr2[1] /\ Rank(pr[2]) < Rank(pr2[2])) =>
                   \E k \in labelRows, k2 \in labelRows :
                      /\ k < k2
                      /\ entry(k) = <<"#   Group: " \o pr[1], "#     " \o pr[2]>>
                      /\ entry(k2) = <<"#   Group: " \o pr2[1], "#     " \o pr2[2]>>

\* the exported save state has Run recorded from G1 and Walk recorded without
\* a group: the legend lists Walk under Default before Run under G1
C22_Witness ==
    /\ last_op = "export"
    /\ Len(ExportedLaps) = 2
    /\ ExportedLaps[1].lbl.name = "Run" /\ ExportedLaps[1].lbl.group = "G1"
    /\ ExportedLaps[1].lbl.auto_startstop
    /\ ExportedLaps[2].lbl.name = "Walk" /\ ExportedLaps[2].lbl.group = NoGroup
    /\ LegendLen = 4
    /\ LegendAt(1) = <<"#   Group: Default">>
    /\ LegendAt(2) = <<"#     Walk", "d", "Start/Stop">>
    /\ LegendAt(3) = <<"#   Group: G1">>
    /\ LegendAt(4) = <<"#     Run", "", "Start/Stop">>

\* ------------------------------------------------------ failing writes
\* laps are recorded and reset while the session is saved and save states
\* are created, loaded and deleted, on a disk whose writes can fail
NextWrites ==
    \/ ToggleTimer
    \/ AddLapUpTo(MaxSavedLaps)
    \/ Reset
    \/ \E outcome \in WriteOutcomes : CallSaveCurrent(outcome)
    \/ \E name \in {"Run"}, now \in Nows, outcome \in WriteOutcomes :
          CallCreateSaveState(name, now, outcome)
    \/ \E name \in DOMAIN saves : LoadState(name)
    \/ \E name \in DOMAIN saves : DeleteSaveState(name)

SpecWrites == InitSnapshots /\ [][NextWrites]_vars

\* C23: when its write fails, save_current_state returns False and the
\* session in memory is as before, and the file is not written by a retry;
\* the same holds for create_save_state, after which the save states have the
\* names they had
C23_FailedWrite ==
    /\ [][\A outcome \in WriteOutcomes \ {"written"} :
             CallSaveCurrent(outcome) =>
                /\ last_op' = "save_current_state -> False"
                /\ time' = time /\ laps' = laps
                /\ label_startstop_state' = label_startstop_state
                /\ timer_file' /= CurrentDoc(time, laps, label_startstop_state)
                      \/ timer_file' = timer_file]_vars
    /\ [][\A outcome \in WriteOutcomes \ {"written"}, now \in Nows :
             CallCreateSaveState("Run", now, outcome) =>
                /\ last_op' = "create_save_state(Run) -> False"
                /\ time' = time /\ laps' = laps
                /\ label_startstop_state' = label_startstop_state
                /\ DOMAIN saves' = DOMAIN saves]_vars

\* C24: after each add_lap, lap label change, note, reset and timer stop the
\* autosave document holds the time, the laps and the toggle map of the
\* session in memory
C24_MutationsAutosaved ==
    [][(\/ last_op' \in {"add_lap", "change_lap_label", "reset"}
        \/ \E text \in NoteTexts : SetNote(Len(laps), text)
        \/ ToggleTimer /\ running)
       => timer_file' = CurrentDoc(time', laps', label_startstop_state')]_vars

\* ------------------------------------------------- the running session
\* the stopwatch runs, laps are recorded, the oldest lap is relabelled, and a
\* save state is created, loaded and deleted at any moment
NextSession ==
    \/ ToggleTimer
    \/ \E dt \in TickDeltas : Tick(dt)
    \/ AddLap
    \/ Reset
    \/ \E j \in 1..MaxLabels : ChangeLapLabel(Len(laps), j)
    \/ \E name \in {"Run"}, now \in Nows : SaveStateUpTo(MaxSessionSaves, name, now)
    \/ \E name \in DOMAIN saves : LoadState(name)
    \/ \E name \in DOMAIN saves : DeleteSaveState(name)

SpecSession == InitSnapshots /\ [][NextSession]_vars

\* C25: the time changes by ticks only while the timer runs: a tick adds
\* its delta and is delivered only while running, the time of a stopped timer
\* stays until a start, a reset or a load, and starting or stopping leaves
\* the time, the laps and the toggle map as they are
C25_TicksOnlyWhileRunning ==
    /\ [][time' /= time =>
             \/ running /\ running' /\ \E dt \in TickDeltas : time' = time + dt
             \/ last_op' \in {"reset", "load_state"}]_vars
    /\ [][\A dt \in TickDeltas : Tick(dt) => running /\ time' = time + dt]_vars
    /\ [][running' /= running =>
             /\ time' = time /\ laps' = laps
             /\ label_startstop_state' = label_startstop_state]_vars

\* the timer ran for one tick and was stopped, and nothing was loaded: the
\* time stays at 1
C25_Witness ==
    /\ ~running
    /\ time = 1
    /\ saves = EmptyDict
    /\ laps = <<>>

\* C27: in every state of the session no lap is later than the session's time
\* and the lap times do not increase from the newest lap (position 0) to the
\* oldest; a lap is added only while the timer runs and a reset is done only
\* while it is stopped
C27_LapTimesOrdered ==
    /\ [](/\ \A i \in 1..Len(laps) : laps[i].t <= time
          /\ \A i \in 1..(Len(laps) - 1) : laps[i].t >= laps[i + 1].t)
    /\ [][last_op' = "add_lap" => running /\ Len(laps') = Len(laps) + 1]_vars
    /\ [][last_op' = "reset" => ~running]_vars

\* a session with a lap at 0 and a newer lap at 1 was loaded from a save state
\* while the timer was running
C27_Witness ==
    /\ last_op = "load_state"
    /\ running
    /\ time = 1
    /\ Len(laps) = 2
    /\ laps[1].t = 1 /\ laps[2].t = 0

\* C30: the document of a new save state holds the session of that moment,
\* it stays as it is while the session changes, and loading it makes the time,
\* the laps and the toggle map those of the document, leaves running as it is
\* and writes the loaded session to the autosave file
C30_NamedRoundTrip ==
    /\ [][\A now \in Nows :
             SaveStateUpTo(MaxSessionSaves, "Run", now) =>
                \E n \in (DOMAIN saves') \ (DOMAIN saves) :
                   /\ LoadDoc(saves'[n]).time = time
                   /\ LoadDoc(saves'[n]).laps = laps
                   /\ LoadDoc(saves'[n]).label_startstop_state = label_startstop_state]_vars
    /\ [][\A n \in (DOMAIN saves) \cap (DOMAIN saves') : saves'[n] = saves[n]]_vars
    /\ [][\A n \in DOMAIN saves :
             LoadState(n) =>
                /\ time' = LoadDoc(saves[n]).time
                /\ laps' = LoadDoc(saves[n]).laps
                /\ label_startstop_state' = LoadDoc(saves[n]).label_startstop_state
                /\ running' = running
                /\ timer_file' /= NoFile
                /\ timer_file'.time = saves[n].time
                /\ timer_file'.laps = saves[n].laps
                /\ timer_file'.label_startstop_state = saves[n].label_startstop_state
                /\ LoadDoc(timer_file') =
                      [time |-> time', laps |-> laps',
                       label_startstop_state |-> label_startstop_state']]_vars

\* a save state made of a session with one lap at time 0 was loaded while the
\* timer was running: the session is the saved one, the timer still runs, and
\* the autosave file holds the loaded session
C30_Witness ==
    /\ last_op = "load_state"
    /\ running
    /\ "Run" \in DOMAIN saves
    /\ saves["Run"] /= PartialFile
    /\ LoadDoc(saves["Run"]).time = 0
    /\ Len(LoadDoc(saves["Run"]).laps) = 1
    /\ time = 0
    /\ laps = LoadDoc(saves["Run"]).laps
    /\ timer_file = CurrentDoc(time, laps, label_startstop_state)

\* C26: for the save states of every state and every name asked for, the
\* search for a free name ends after at most (number of save states + 1)
\* membership tests and gives a name that no save state has; the name a step
\* writes is the one the search gives for the names present and the name asked
\* for
C26_SearchTerminates ==
    /\ [](\A base_name \in SaveNames :
             /\ Probes(DOMAIN saves, base_name) <= Cardinality(DOMAIN saves) + 1
             /\ _get_unique_save_name(DOMAIN saves, base_name) \notin DOMAIN saves)
    /\ [][\A name \in SaveNames, now \in Nows :
             SaveState(name, now) =>
                DOMAIN saves' = DOMAIN saves \cup {_get_unique_save_name(DOMAIN saves, name)}]_vars

\* Run, Run(1) and Run(2) exist: the search for "Run" takes four tests, one
\* more than there are save states, and gives Run(3)
C26_Witness ==
    /\ last_op = "save_state"
    /\ DOMAIN saves = {"Run", "Run(1)", "Run(2)"}
    /\ Probes(DOMAIN saves, "Run") = 4
    /\ _get_unique_save_name(DOMAIN saves, "Run") = "Run(3)"

\* C28: the group add_lap records on a lap is the active group the label was
\* chosen from: the group that was active when the label was selected for the
\* lap, and the active group when no label was selected
C28_LapGroupIsActiveGroup ==
    [][last_op' = "add_lap" =>
          laps'[1].lbl.group = (IF provisional_label /= NoLabel
                                THEN provisional_label.group
                                ELSE group)]_vars

\* C29: every lap of the session carries a recorded group name
C29_EveryLapHasGroup ==
    \A i \in 1..Len(laps) : laps[i].lbl.group /= NoGroup

====
